---- MODULE Spec2Model ----
(***************************************************************************)
(* State-machine model of GameServer (src/server.js): the session          *)
(* registries (publicGames / privateGames), the connection directory       *)
(* (players) and the socket.io event handlers.  Every handler runs to      *)
(* completion (single-threaded event loop), so each handler is one action. *)
(* A handler is written as a function from the server state at its entry   *)
(* to the server state at its exit; the record it threads through holds    *)
(* the fields of GameServer plus the messages the handler emitted and      *)
(* whether it threw (an uncaught exception ends the node process).         *)
(***************************************************************************)
EXTENDS Integers, Sequences, FiniteSets, TLC

\* ---- bounds of the model ------------------------------------------------
NumSockets == 2      \* connections the transport ever hands out
MaxTicks   == 1      \* clock advances
MaxScore   == 1      \* |score| explored
MaxEvents  == 5      \* socket events delivered to the handlers

\* ---- program constants --------------------------------------------------
maxPlayers == 4                 \* the literal 4 of joinGame / handleQuickPlay
maxRounds  == 3                 \* game.maxRounds
maxAge     == 30 * 60 * 1000    \* cleanupOldGames
StartTime  == 1                 \* the clock reading at construction

Sockets     == 1..NumSockets
NoGame      == 0                \* null / undefined game id
NoCharacter == "undefined"      \* character of a connection that never joined
NoWinner    == 0                \* winnerId = null
Characters  == {"goblin"}
TrashTypes  == {"golden", "handbag", "trashcan"}
Points      == {-1, 1}
ActionKinds == {"tapTrash", "usePowerup"}
TickSteps   == {1, maxAge + 1}

VARIABLES
    players,        \* this.players: socket id -> [gameId, character]
    publicGames,    \* this.publicGames: Map in insertion order
    privateGames,   \* this.privateGames: Map in insertion order
    now,            \* Date.now()
    nextSocket,     \* next unused socket id of the transport
    emitted,        \* messages emitted by the last handler, in order
    crashed,        \* the last handler threw (process is gone)
    events,         \* socket events handled so far
    countdown       \* game id -> what the clients last heard about its countdown

vars == <<players, publicGames, privateGames, now, nextSocket, emitted, crashed, events, countdown>>

\* ---- Map (insertion ordered) -------------------------------------------
MapHas(m, id) == \E i \in 1..Len(m) : m[i].id = id
MapIdx(m, id) == CHOOSE i \in 1..Len(m) : m[i].id = id
MapGet(m, id) == m[MapIdx(m, id)]
MapSet(m, id, g) ==
    IF MapHas(m, id) THEN [m EXCEPT ![MapIdx(m, id)] = g] ELSE Append(m, g)
MapDelete(m, id) == SelectSeq(m, LAMBDA g : g.id # id)
MapIds(m) == {m[i].id : i \in 1..Len(m)}

\* ---- plain objects used as tables (insertion ordered keys) ---------------
ObjHas(o, k) == \E i \in 1..Len(o) : o[i].id = k
ObjGet(o, k) == (o[CHOOSE i \in 1..Len(o) : o[i].id = k]).score
ObjOr0(o, k) == IF ObjHas(o, k) THEN ObjGet(o, k) ELSE 0
ObjSet(o, k, v) ==
    IF ObjHas(o, k)
    THEN [i \in 1..Len(o) |-> IF o[i].id = k THEN [id |-> k, score |-> v] ELSE o[i]]
    ELSE Append(o, [id |-> k, score |-> v])
ObjDelete(o, k) == SelectSeq(o, LAMBDA e : e.id # k)

\* ---- arrays ---------------------------------------------------------------
Includes(a, x) == \E i \in 1..Len(a) : a[i] = x
IndexOf(a, x)  == CHOOSE i \in 1..Len(a) : a[i] = x /\ \A j \in 1..(i-1) : a[j] # x
Filter(a, x)   == SelectSeq(a, LAMBDA y : y # x)

\* ---- the server state a handler threads through --------------------------
Entry ==
    [players |-> players, publicGames |-> publicGames,
     privateGames |-> privateGames, emitted |-> <<>>, crashed |-> FALSE]

\* What the clients of each registered game last heard: startGameCountDown
\* ("announced") or a cancelGameCountDown after it ("cancelled").
RECURSIVE Heard(_, _, _)
Heard(cd, msgs, i) ==
    IF i > Len(msgs) THEN cd
    ELSE LET m == msgs[i] IN
         IF m.ev = "gameCreated" \/ m.ev = "privateGameCreated"
         THEN Heard([x \in (DOMAIN cd) \ {m.data.gameId} |-> cd[x]], msgs, i + 1)
         ELSE IF m.ev = "startGameCountDown"
         THEN Heard([x \in (DOMAIN cd) \cup {m.room} |->
                        IF x = m.room THEN "announced" ELSE cd[x]], msgs, i + 1)
         ELSE IF m.ev = "cancelGameCountDown" /\ m.room \in DOMAIN cd
         THEN Heard([cd EXCEPT ![m.room] = "cancelled"], msgs, i + 1)
         ELSE Heard(cd, msgs, i + 1)
Registered(st, cd) ==
    [x \in {y \in DOMAIN cd : MapHas(st.publicGames, y) \/ MapHas(st.privateGames, y)} |-> cd[x]]

Commit(st) ==
    /\ events < MaxEvents
    /\ countdown' = Registered(st, Heard(countdown, st.emitted, 1))
    /\ events' = events + 1
    /\ players' = st.players
    /\ publicGames' = st.publicGames
    /\ privateGames' = st.privateGames
    /\ emitted' = st.emitted
    /\ crashed' = st.crashed

\* this.publicGames.get(id) || this.privateGames.get(id)
HasAny(st, id) == MapHas(st.publicGames, id) \/ MapHas(st.privateGames, id)
InPublic(st, id) == MapHas(st.publicGames, id)
GetAny(st, id) ==
    IF MapHas(st.publicGames, id) THEN MapGet(st.publicGames, id)
    ELSE MapGet(st.privateGames, id)
\* isPublic ? this.publicGames.get(id) : this.privateGames.get(id)
HasIn(st, id, isPublic) ==
    IF isPublic THEN MapHas(st.publicGames, id) ELSE MapHas(st.privateGames, id)
GetIn(st, id, isPublic) ==
    IF isPublic THEN MapGet(st.publicGames, id) ELSE MapGet(st.privateGames, id)
\* writes through the reference to a game object held by one of the maps
PutIn(st, g, isPublic) ==
    IF isPublic
    THEN [st EXCEPT !.publicGames = MapSet(@, g.id, g)]
    ELSE [st EXCEPT !.privateGames = MapSet(@, g.id, g)]
PutAny(st, g) == PutIn(st, g, MapHas(st.publicGames, g.id))

\* ---- emitting ------------------------------------------------------------
\* socket.emit(ev, data)
ToSocket(s, ev, data) == [kind |-> "socket", to |-> s, room |-> NoGame, ev |-> ev, data |-> data]
\* socket.to(room).emit(ev, data): the room except the sender
ToOthers(s, room, ev, data) == [kind |-> "others", to |-> s, room |-> room, ev |-> ev, data |-> data]
\* this.io.to(room).emit(ev, data)
ToRoom(room, ev, data) == [kind |-> "room", to |-> 0, room |-> room, ev |-> ev, data |-> data]
Emit(st, msg) == [st EXCEPT !.emitted = Append(@, msg)]

\* players.map(id => ({id, character: this.players[id]?.character || "goblin",
\*                     position: players.indexOf(id) + 1}))
CharacterOf(st, id) ==
    IF id \in DOMAIN st.players /\ st.players[id].character # NoCharacter
    THEN st.players[id].character ELSE "goblin"
Roster(st, game) ==
    [i \in 1..Len(game.players) |->
        [id |-> game.players[i],
         character |-> CharacterOf(st, game.players[i]),
         position |-> IndexOf(game.players, game.players[i])]]

\* game.players.forEach(id => this.players[id].socket.emit(ev, data)):
\* reading .socket of a missing directory entry throws, after the emits
\* to the entries before it.
FirstMissing(st, ids) ==
    IF \E i \in 1..Len(ids) : ids[i] \notin DOMAIN st.players
    THEN CHOOSE i \in 1..Len(ids) :
            /\ ids[i] \notin DOMAIN st.players
            /\ \A j \in 1..(i-1) : ids[j] \in DOMAIN st.players
    ELSE Len(ids) + 1
EmitEach(st, ids, ev, data) ==
    LET k == FirstMissing(st, ids) IN
    [st EXCEPT !.emitted = @ \o [i \in 1..(k-1) |-> ToSocket(ids[i], ev, data)],
               !.crashed = (k <= Len(ids))]

\* ---- game state methods ----------------------------------------------------
\* startGame(gameId, isPublic); trash is the value getRandomTrashType() returns
startGame(st, gameId, isPublic, trash) ==
    IF ~HasIn(st, gameId, isPublic) THEN st
    ELSE LET game == [GetIn(st, gameId, isPublic) EXCEPT
                         !.gameStarted = TRUE, !.trashType = trash]
             st1  == PutIn(st, game, isPublic)
         IN  EmitEach(st1, game.players, "gameStart",
                      [trashType |-> game.trashType, players |-> Roster(st1, game)])

\* Object.entries(game.scores).forEach(...): the scan for the winner
RECURSIVE WinnerScan(_, _, _, _)
WinnerScan(scores, i, maxScore, winnerId) ==
    IF i > Len(scores) THEN winnerId
    ELSE IF scores[i].score > maxScore
         THEN WinnerScan(scores, i + 1, scores[i].score, scores[i].id)
         ELSE WinnerScan(scores, i + 1, maxScore, winnerId)

endGame(st, gameId, isPublic) ==
    IF ~HasIn(st, gameId, isPublic) THEN st
    ELSE LET game     == GetIn(st, gameId, isPublic)
             winnerId == WinnerScan(game.scores, 1, -1, NoWinner)
             roster   == Roster(st, game)
             data     == [scores |-> game.scores, winnerId |-> winnerId,
                          players |-> [i \in 1..Len(roster) |->
                              [id |-> roster[i].id,
                               character |-> roster[i].character,
                               position |-> roster[i].position,
                               score |-> ObjOr0(game.scores, roster[i].id)]]]
             st1      == EmitEach(st, game.players, "gameOver", data)
         IN  IF st1.crashed THEN st1
             ELSE IF isPublic
                  THEN [st1 EXCEPT !.publicGames = MapDelete(@, gameId)]
                  ELSE [st1 EXCEPT !.privateGames = MapDelete(@, gameId)]

\* ---- game management methods -------------------------------------------------
NewGame(s, gameId, isPublic, trash) ==
    [id |-> gameId, players |-> <<s>>, host |-> s, readyStates |-> <<>>,
     round |-> 1, maxRounds |-> maxRounds, gameState |-> "lobby",
     trashType |-> trash, negativeMode |-> FALSE, scores |-> <<>>,
     isPublic |-> isPublic, createdAt |-> now, gameStarted |-> FALSE]

\* createGame(socket, isPublic); the new id is `game_${Date.now()}`, which is
\* one id per clock reading: the model names it by the reading.
createGame(st, s, isPublic, trash) ==
    LET gameId == now
        game   == NewGame(s, gameId, isPublic, trash)
        st1    == PutIn(st, game, isPublic)
        st2    == [st1 EXCEPT !.players[s].gameId = gameId]
    IN  Emit(st2, ToSocket(s, IF isPublic THEN "gameCreated" ELSE "privateGameCreated",
                           [gameId |-> gameId, isHost |-> TRUE, seed |-> gameId]))

joinGame(st, s, gameId, character, isPublic, trash) ==
    IF ~HasIn(st, gameId, isPublic)
    THEN Emit(st, ToSocket(s, "gameError", [message |-> "Game not found"]))
    ELSE IF Len(GetIn(st, gameId, isPublic).players) >= maxPlayers
    THEN Emit(st, ToSocket(s, "gameError", [message |-> "Game is full"]))
    ELSE LET g0   == GetIn(st, gameId, isPublic)
             game == [g0 EXCEPT !.players = Append(@, s),
                                !.scores = ObjSet(@, s, 0)]
             st1  == PutIn(st, game, isPublic)
             st2  == [st1 EXCEPT !.players[s] =
                          [gameId |-> gameId, character |-> character]]
             st3  == Emit(st2, ToOthers(s, gameId, "playerJoined",
                          [playerId |-> s, position |-> Len(game.players),
                           character |-> character]))
             st4  == Emit(st3, ToSocket(s, "gameJoined",
                          [gameId |-> gameId, isHost |-> FALSE, seed |-> gameId,
                           currentRound |-> game.round,
                           playerId |-> Len(game.players) - 1,
                           players |-> Roster(st3, game)]))
         IN  IF Len(game.players) = maxPlayers
             THEN startGame(st4, gameId, isPublic, trash)
             ELSE st4

\* ---- utility methods ---------------------------------------------------------
Expired(game) == now - game.createdAt > maxAge \/ Len(game.players) = 0

cleanupOldGames(st) ==
    [st EXCEPT !.publicGames = SelectSeq(@, LAMBDA g : ~Expired(g)),
               !.privateGames = SelectSeq(@, LAMBDA g : ~Expired(g))]

\* a matchmaking loop that forgets the gameStarted test
IsOpenAnyState(game) == Len(game.players) < maxPlayers
\* the for-loop of handleQuickPlay: first public game open for joining
IsOpen(game) == ~game.gameStarted /\ Len(game.players) < maxPlayers
HasOpenGame(m) == \E i \in 1..Len(m) : IsOpen(m[i])
FirstOpenGame(m) ==
    m[CHOOSE i \in 1..Len(m) : IsOpen(m[i]) /\ \A j \in 1..(i-1) : ~IsOpen(m[j])].id

handleQuickPlay(st, s, character, trashNew, trashStart) ==
    LET st1 == cleanupOldGames(st) IN
    IF HasOpenGame(st1.publicGames)
    THEN joinGame(st1, s, FirstOpenGame(st1.publicGames), character, TRUE, trashStart)
    ELSE LET st2 == createGame(st1, s, TRUE, trashNew)
         IN  joinGame(st2, s, now, character, TRUE, trashStart)

\* ---- player management -------------------------------------------------------
MapDeleteKey(f, k) == [x \in (DOMAIN f) \ {k} |-> f[x]]
MapPutKey(f, k, v) == [x \in (DOMAIN f) \cup {k} |-> IF x = k THEN v ELSE f[x]]

\* a disconnect that forgets to look for the emptied game
IsEmptyNever(game) == FALSE
\* game.players.length === 0
IsEmpty(game) == Len(game.players) = 0
\* game.players[0], undefined on an empty array
NoSocket == 0
ArrayFirst(a) == IF Len(a) > 0 THEN a[1] ELSE NoSocket

handleDisconnect(st, s) ==
    LET gameId == st.players[s].gameId
        drop(x) == [x EXCEPT !.players = MapDeleteKey(@, s)]
    IN
    IF gameId = NoGame \/ ~HasAny(st, gameId) THEN drop(st)
    ELSE LET g0   == GetAny(st, gameId)
             game == [g0 EXCEPT !.players = Filter(@, s),
                                !.scores = ObjDelete(@, s),
                                !.readyStates = MapDeleteKey(@, s)]
             st1  == PutAny(st, game)
             st2  == Emit(st1, ToOthers(s, gameId, "playerDisconnected",
                                        [playerId |-> s]))
         IN  IF IsEmpty(game)
             THEN drop(IF game.isPublic
                       THEN [st2 EXCEPT !.publicGames = MapDelete(@, gameId)]
                       ELSE [st2 EXCEPT !.privateGames = MapDelete(@, gameId)])
             ELSE IF s = game.host
             THEN LET promoted == [game EXCEPT !.host = ArrayFirst(game.players)]
                      st3      == PutAny(st2, promoted)
                  IN  IF promoted.host \in DOMAIN st3.players
                      THEN drop(Emit(st3, ToSocket(promoted.host, "promoteToHost", <<>>)))
                      ELSE [st3 EXCEPT !.crashed = TRUE]
             ELSE drop(st2)

\* ---- readiness -----------------------------------------------------------------
broadcastReadyStates(st, gameId) ==
    IF ~HasAny(st, gameId) THEN st
    ELSE LET game == GetAny(st, gameId)
         IN  EmitEach(st, game.players, "readyStatesUpdated", game.readyStates)

\* game.players.every(id => game.readyStates[id])
AllReady(game) ==
    \A i \in 1..Len(game.players) :
        /\ game.players[i] \in DOMAIN game.readyStates
        /\ game.readyStates[game.players[i]]

setPlayerReady(st, s, gameId, character, ready) ==
    IF ~HasAny(st, gameId) \/ ~Includes(GetAny(st, gameId).players, s) THEN st
    ELSE LET g0 == GetAny(st, gameId) IN
         IF s \in DOMAIN g0.readyStates /\ g0.readyStates[s] = ready THEN st
         ELSE LET game == [g0 EXCEPT !.readyStates = MapPutKey(@, s, ready)]
                  st1  == PutAny(st, game)
                  st2  == [st1 EXCEPT !.players[s].character = character]
                  st3  == broadcastReadyStates(st2, gameId)
              IN  IF st3.crashed THEN st3
                  ELSE IF ready
                  THEN IF AllReady(game) /\ Len(game.players) > 1 /\ ~game.gameStarted
                       THEN Emit(st3, ToRoom(gameId, "startGameCountDown",
                                [round |-> game.round, trashType |-> game.trashType]))
                       ELSE st3
                  ELSE Emit(st3, ToOthers(s, gameId, "cancelGameCountDown", <<>>))

\* a start request that skips the gameStarted test
startGameForRealUnguarded(st, s, gameId, trash) ==
    IF gameId = NoGame \/ ~HasAny(st, gameId) THEN st
    ELSE LET st1 == PutAny(st, [GetAny(st, gameId) EXCEPT !.gameStarted = TRUE])
         IN  startGame(st1, gameId, InPublic(st1, gameId), trash)
startGameForReal(st, s, gameId, trash) ==
    IF gameId = NoGame \/ ~HasAny(st, gameId) THEN st
    ELSE LET g0 == GetAny(st, gameId) IN
         IF g0.gameStarted THEN st
         ELSE LET st1 == PutAny(st, [g0 EXCEPT !.gameStarted = TRUE])
              IN  startGame(st1, gameId, InPublic(st1, gameId), trash)

joinPrivateGame(st, s, gameId, character, trash) ==
    joinGame(st, s, gameId, character, FALSE, trash)

\* socket.on("createPrivateGame", () => this.createPrivateGame(socket)):
\* GameServer has no method createPrivateGame, so the listener throws a
\* TypeError.
createPrivateGame(st, s) == [st EXCEPT !.crashed = TRUE]

\* ---- in-round events -------------------------------------------------------------
handlePlayerAction(st, s, gameId, action, points, powerup) ==
    IF ~HasAny(st, gameId) \/ ~Includes(GetAny(st, gameId).players, s) THEN st
    ELSE LET g0  == GetAny(st, gameId)
             st1 == Emit(st, ToOthers(s, gameId, "playerAction",
                        [playerId |-> s, action |-> action, points |-> points,
                         powerup |-> powerup]))
         IN  IF action = "tapTrash"
             THEN PutAny(st1, [g0 EXCEPT
                     !.scores = ObjSet(@, s, ObjOr0(g0.scores, s) + points)])
             ELSE st1

\* a round advance that never looks at the round limit
RoundsExhaustedNever(game) == FALSE
\* game.round > game.maxRounds
RoundsExhausted(game) == game.round > game.maxRounds

handleRoundComplete(st, s, trash) ==
    LET gameId == st.players[s].gameId IN
    IF ~HasAny(st, gameId) \/ s # GetAny(st, gameId).host THEN st
    ELSE LET g0   == GetAny(st, gameId)
             game == [g0 EXCEPT !.round = @ + 1]
             st1  == PutAny(st, game)
         IN  IF RoundsExhausted(game)
             THEN endGame(st1, gameId, InPublic(st1, gameId))
             ELSE LET next == [game EXCEPT !.trashType = trash]
                  IN  Emit(PutAny(st1, next),
                           ToOthers(s, gameId, "startNextRound",
                               [round |-> next.round, trashType |-> next.trashType]))

\* ---- the events --------------------------------------------------------------------
Open == DOMAIN players
AllGames == publicGames \o privateGames
GameIdInputs == MapIds(publicGames) \cup MapIds(privateGames) \cup {NoGame}
TickCount == ((now - StartTime) \div (maxAge + 1)) + ((now - StartTime) % (maxAge + 1))

\* io.on("connection"): this.players[socket.id] = { socket, gameId: null }
Connect ==
    /\ ~crashed
    /\ nextSocket \in Sockets
    /\ players' = MapPutKey(players, nextSocket,
                            [gameId |-> NoGame, character |-> NoCharacter])
    /\ nextSocket' = nextSocket + 1
    /\ emitted' = <<>>
    /\ UNCHANGED <<publicGames, privateGames, now, crashed, events, countdown>>

Disconnect(s) ==
    /\ ~crashed /\ s \in Open
    /\ Commit(handleDisconnect(Entry, s))
    /\ UNCHANGED <<now, nextSocket>>

QuickPlay(s) ==
    /\ ~crashed /\ s \in Open
    /\ \E character \in Characters, trashNew \in TrashTypes, trashStart \in TrashTypes :
          Commit(handleQuickPlay(Entry, s, character, trashNew, trashStart))
    /\ UNCHANGED <<now, nextSocket>>

CreatePrivateGame(s) ==
    /\ ~crashed /\ s \in Open
    /\ Commit(createPrivateGame(Entry, s))
    /\ UNCHANGED <<now, nextSocket>>

JoinPrivateGame(s) ==
    /\ ~crashed /\ s \in Open
    /\ \E gameId \in GameIdInputs, character \in Characters, trash \in TrashTypes :
          Commit(joinPrivateGame(Entry, s, gameId, character, trash))
    /\ UNCHANGED <<now, nextSocket>>

PlayerReady(s) ==
    /\ ~crashed /\ s \in Open
    /\ \E gameId \in GameIdInputs, character \in Characters, ready \in BOOLEAN :
          Commit(setPlayerReady(Entry, s, gameId, character, ready))
    /\ UNCHANGED <<now, nextSocket>>

StartGameForReal(s) ==
    /\ ~crashed /\ s \in Open
    /\ \E gameId \in GameIdInputs, trash \in TrashTypes :
          Commit(startGameForReal(Entry, s, gameId, trash))
    /\ UNCHANGED <<now, nextSocket>>

ScoresWithin(st) ==
    \A m \in {st.publicGames, st.privateGames} : \A i \in 1..Len(m) :
        \A k \in 1..Len(m[i].scores) :
            m[i].scores[k].score \in (-MaxScore)..MaxScore

PlayerAction(s) ==
    /\ ~crashed /\ s \in Open
    /\ \E gameId \in GameIdInputs, action \in ActionKinds, points \in Points :
          LET st == handlePlayerAction(Entry, s, gameId, action, points, "none")
          IN  ScoresWithin(st) /\ Commit(st)
    /\ UNCHANGED <<now, nextSocket>>

RoundComplete(s) ==
    /\ ~crashed /\ s \in Open
    /\ \E trash \in TrashTypes : Commit(handleRoundComplete(Entry, s, trash))
    /\ UNCHANGED <<now, nextSocket>>

\* the wall clock moves on between two events
Tick ==
    /\ ~crashed
    /\ TickCount < MaxTicks
    /\ \E d \in TickSteps : now' = now + d
    /\ emitted' = <<>>
    /\ UNCHANGED <<players, publicGames, privateGames, nextSocket, crashed, events, countdown>>

Init ==
    /\ players = <<>>
    /\ publicGames = <<>>
    /\ privateGames = <<>>
    /\ now = StartTime
    /\ nextSocket = 1
    /\ emitted = <<>>
    /\ crashed = FALSE
    /\ events = 0
    /\ countdown = <<>>

Next ==
    \/ Connect
    \/ Tick
    \/ \E s \in Sockets : Disconnect(s)
    \/ \E s \in Sockets : QuickPlay(s)
    \/ \E s \in Sockets : CreatePrivateGame(s)
    \/ \E s \in Sockets : JoinPrivateGame(s)
    \/ \E s \in Sockets : PlayerReady(s)
    \/ \E s \in Sockets : StartGameForReal(s)
    \/ \E s \in Sockets : PlayerAction(s)
    \/ \E s \in Sockets : RoundComplete(s)

Spec == Init /\ [][Next]_vars

\* ======================================================================
\* Properties
\* ======================================================================
Registry == {publicGames[i] : i \in 1..Len(publicGames)}
                \cup {privateGames[i] : i \in 1..Len(privateGames)}
RegistryIds == MapIds(publicGames) \cup MapIds(privateGames)
GameOf(id) ==
    IF MapHas(publicGames, id) THEN MapGet(publicGames, id) ELSE MapGet(privateGames, id)
Members(game) == {game.players[i] : i \in 1..Len(game.players)}
ConnectedMembers(game) == Members(game) \cap DOMAIN players
Emitted(ev) == \E i \in 1..Len(emitted) : emitted[i].ev = ev
EmittedTo(s, ev) ==
    \E i \in 1..Len(emitted) :
        emitted[i].ev = ev /\ emitted[i].kind = "socket" /\ emitted[i].to = s
EmittedIn(room, ev) ==
    \E i \in 1..Len(emitted) : emitted[i].ev = ev /\ emitted[i].room = room
\* the step created (or re-created) the session named id
Created(id) ==
    \E i \in 1..Len(emitted) :
        emitted[i].ev = "gameCreated" /\ emitted[i].data.gameId = id

\* C1: every session in the public or private registry has a player list
\* of at least 1 and at most maxPlayers entries.
C1_RosterSizeBounded ==
    \A g \in Registry : Len(g.players) >= 1 /\ Len(g.players) <= maxPlayers

\* a join has just filled a session to maxPlayers entries
C1_Witness ==
    \E g \in Registry :
        /\ Len(g.players) = maxPlayers
        /\ Emitted("gameJoined")
        /\ ~crashed

\* C5: a session's round number starts at 1, never decreases while the
\* session lives, and never exceeds maxRounds + 1.
C5_RoundRange == \A g \in Registry : g.round >= 1 /\ g.round <= maxRounds + 1
C5_RoundStep ==
    \A id \in RegistryIds' :
        LET after == GameOf(id)' IN
        IF id \in RegistryIds /\ ~Created(id)'
        THEN after.round >= GameOf(id).round
        ELSE after.round = 1
C5_RoundMonotonicBounded == []C5_RoundRange /\ [][C5_RoundStep]_vars

\* a roundComplete has just taken a session into its last round
C5_Witness ==
    \E g \in Registry :
        /\ g.round = maxRounds
        /\ EmittedIn(g.id, "startNextRound")

\* C2: when k distinct connections (2 <= k <= 4) issue quickPlay one after
\* another and no session exists beforehand, they all end up in one session
\* whose roster holds exactly those k identities, each exactly once.
\* The scenario: k connections, k events, every connection placed in a game,
\* so each connection sent one quickPlay and nothing else happened.
C2_Scenario ==
    /\ ~crashed
    /\ now = StartTime
    /\ Cardinality(Open) >= 2
    /\ nextSocket - 1 = Cardinality(Open)
    /\ events = Cardinality(Open)
    /\ \A s \in Open : players[s].gameId # NoGame
C2_QuickPlayersShareOneRoster ==
    C2_Scenario =>
        /\ Len(publicGames) = 1
        /\ Len(publicGames[1].players) = Cardinality(Open)
        /\ Members(publicGames[1]) = Open

\* C3: a session that has not started begins its start sequence
\* (startGameCountDown or gameStart) exactly when a join fills it to
\* maxPlayers, or a playerReady vote leaves at least 2 connected players in
\* it with every connected player flagged ready.
C3_Begins(id) ==
    \/ id \in RegistryIds' /\ GameOf(id)'.gameStarted
    \/ EmittedIn(id, "startGameCountDown")'
C3_FillJoin(id) ==
    /\ id \in RegistryIds'
    /\ Len(GameOf(id).players) < maxPlayers
    /\ Len(GameOf(id)'.players) = maxPlayers
C3_ReadyVote(id) ==
    /\ id \in RegistryIds'
    /\ Emitted("readyStatesUpdated")'
    /\ GameOf(id)'.readyStates # GameOf(id).readyStates
    /\ Cardinality(ConnectedMembers(GameOf(id))') >= 2
    /\ \A m \in ConnectedMembers(GameOf(id))' :
          /\ m \in DOMAIN GameOf(id)'.readyStates
          /\ GameOf(id)'.readyStates[m]
C3_StartStep ==
    \A id \in RegistryIds :
        (~GameOf(id).gameStarted /\ ~Created(id)') =>
            (C3_Begins(id) <=> (C3_FillJoin(id) \/ C3_ReadyVote(id)))
C3_StartOnlyOnFillOrVote == [][C3_StartStep]_vars

\* C4: once a player has un-readied after the countdown was announced, a
\* start confirmation does not start the game unless every connected player
\* is ready again.
C4_AllConnectedReady(game) ==
    \A m \in ConnectedMembers(game) :
        m \in DOMAIN game.readyStates /\ game.readyStates[m]
C4_ConfirmStep ==
    \A id \in RegistryIds :
        ( /\ id \in DOMAIN countdown
          /\ countdown[id] = "cancelled"
          /\ ~GameOf(id).gameStarted
          /\ id \in RegistryIds'
          /\ GameOf(id)'.players = GameOf(id).players
          /\ GameOf(id)'.gameStarted )
        => C4_AllConnectedReady(GameOf(id))
C4_CancelledCountdownDoesNotStart == [][C4_ConfirmStep]_vars

\* C6: when a roundComplete raises a session's round to maxRounds + 1, every
\* connected player of the session receives gameOver exactly once and the
\* session leaves its registry.
C6_GameOversTo(m) ==
    Cardinality({i \in 1..Len(emitted) :
                    emitted[i].ev = "gameOver" /\ emitted[i].to = m})
C6_EndStep ==
    \A s \in Open :
        LET id == players[s].gameId IN
        ( /\ id \in RegistryIds
          /\ GameOf(id).host = s
          /\ GameOf(id).round = maxRounds
          /\ RoundComplete(s) )
        => /\ \A m \in ConnectedMembers(GameOf(id)) : C6_GameOversTo(m)' = 1
           /\ id \notin RegistryIds'
C6_GameOverExactlyOnce == [][C6_EndStep]_vars

\* C7: disconnecting a non-host player leaves the host unchanged;
\* disconnecting the host while another connected player remains makes the
\* first remaining connected player in roster order the host, sends that
\* player promoteToHost and leaves the session in the registry.
C7_Remaining(game, s) == SelectSeq(game.players, LAMBDA m : m # s /\ m \in DOMAIN players)
C7_DisconnectStep ==
    \A s \in Open : Disconnect(s) =>
        \A id \in RegistryIds :
            LET game == GameOf(id) IN
            IF s # game.host
            THEN id \in RegistryIds' => GameOf(id)'.host = game.host
            ELSE Len(C7_Remaining(game, s)) > 0 =>
                    /\ id \in RegistryIds'
                    /\ GameOf(id)'.host = C7_Remaining(game, s)[1]
                    /\ EmittedTo(C7_Remaining(game, s)[1], "promoteToHost")'
C7_HostMigration == [][C7_DisconnectStep]_vars

\* C8: every registered session with at least one connected player has a
\* host that is a connected member of its roster.
C8_HostIsConnectedMember ==
    \A g \in Registry :
        ConnectedMembers(g) # {} => g.host \in ConnectedMembers(g)

\* C9: a player's score in a live session never decreases and is never
\* reset by any event.
C9_ScoreStep ==
    \A id \in RegistryIds :
        (id \in RegistryIds' /\ ~Created(id)') =>
            \A m \in Sockets :
                (ObjHas(GameOf(id).scores, m) /\ ObjHas(GameOf(id)'.scores, m)) =>
                    ObjGet(GameOf(id)'.scores, m) >= ObjGet(GameOf(id).scores, m)
C9_ScoresNeverDecrease == [][C9_ScoreStep]_vars

\* C10: after a disconnect has been processed, no session left in a
\* registry has zero connected players.
C10_DisconnectStep ==
    (\E s \in Open : Disconnect(s)) =>
        \A id \in RegistryIds' : ConnectedMembers(GameOf(id))' # {}
C10_NoSessionWithoutConnectedPlayer == [][C10_DisconnectStep]_vars

\* C11: in every gameOver broadcast the announced winner is a player of the
\* session whose score equals the maximum of the score table (never null,
\* never a lower-scoring player).
C11_WinnerOk(data) ==
    /\ \E i \in 1..Len(data.players) : data.players[i].id = data.winnerId
    /\ \E k \in 1..Len(data.scores) :
          /\ data.scores[k].id = data.winnerId
          /\ \A j \in 1..Len(data.scores) : data.scores[j].score <= data.scores[k].score
C11_WinnerHasMaximumScore ==
    \A i \in 1..Len(emitted) :
        emitted[i].ev = "gameOver" => C11_WinnerOk(emitted[i].data)

\* C12: a disconnect only marks the player as not connected: in every session
\* that stays in the registry, the disconnecting player's roster entries and
\* score entry are retained.
C12_Retained(s, id) ==
    LET pre == GameOf(id)
        post == GameOf(id)'
    IN /\ post.players = pre.players
       /\ ObjHas(pre.scores, s) =>
             /\ ObjHas(post.scores, s)
             /\ ObjGet(post.scores, s) = ObjGet(pre.scores, s)
C12_DisconnectStep ==
    \A s \in Open :
        Disconnect(s) =>
            \A id \in RegistryIds :
                (Includes(GameOf(id).players, s) /\ id \in RegistryIds')
                    => C12_Retained(s, id)
C12_DisconnectKeepsRosterAndScore == [][C12_DisconnectStep]_vars

\* C13: a quick-play request first sweeps expired sessions, then places the
\* caller in the first public session (registry order) that is not started
\* and holds fewer than maxPlayers players, and creates a new public session
\* only when there is none; it never adds a player to a session that has
\* started, is full, is empty or is older than 30 minutes.
C13_Joinable(game) ==
    /\ game.gameStarted = FALSE
    /\ Len(game.players) >= 1
    /\ Len(game.players) <= maxPlayers - 1
    /\ now - game.createdAt <= 30 * 60 * 1000
C13_JoinedMsg(s, id) ==
    \E i \in 1..Len(emitted) :
        /\ emitted[i].ev = "gameJoined"
        /\ emitted[i].to = s
        /\ emitted[i].data.gameId = id
C13_QuickPlayStep(s) ==
    LET joinable == {i \in 1..Len(publicGames) : C13_Joinable(publicGames[i])}
    IN  /\ \A id \in RegistryIds' : now - GameOf(id)'.createdAt <= 30 * 60 * 1000
        /\ joinable # {} =>
              LET first == CHOOSE i \in joinable : \A j \in joinable : i <= j
                  g     == publicGames[first]
              IN  \A id \in {g.id} :
                      /\ ~Emitted("gameCreated")'
                      /\ C13_JoinedMsg(s, id)'
                      /\ players'[s].gameId = id
                      /\ GameOf(id)'.players = Append(g.players, s)
        /\ joinable = {} =>
              \A id \in {now} :
                  /\ Created(id)'
                  /\ C13_JoinedMsg(s, id)'
                  /\ players'[s].gameId = id
                  /\ GameOf(id)'.players = <<s, s>>
        /\ \A id \in RegistryIds \cap RegistryIds' :
              (~Created(id)' /\ GameOf(id)'.players # GameOf(id).players)
                  => C13_Joinable(GameOf(id))
C13_QuickPlayFirstFit ==
    [][\A s \in Open :
          (EmittedTo(s, "gameJoined")' /\ QuickPlay(s)) => C13_QuickPlayStep(s)]_vars
\* a quick-play request has just joined the second public session because
\* the first one, though not full, has started
C13_Witness ==
    /\ Len(publicGames) >= 2
    /\ publicGames[1].gameStarted
    /\ Len(publicGames[1].players) < maxPlayers
    /\ ~Emitted("gameCreated")
    /\ \E s \in Open : C13_JoinedMsg(s, publicGames[2].id)

\* C14: every createPrivateGame event results in a new session in the private
\* registry with the caller as host and first player (which a later
\* joinPrivateGame carrying its id can find).
C14_CreatePrivateStep(s) ==
    /\ ~crashed'
    /\ \E i \in 1..Len(privateGames') :
          /\ privateGames'[i].host = s
          /\ Len(privateGames'[i].players) >= 1
          /\ privateGames'[i].players[1] = s
          /\ ~MapHas(privateGames, privateGames'[i].id)
C14_CreatePrivateGameCreatesSession ==
    [][\A s \in Open : CreatePrivateGame(s) => C14_CreatePrivateStep(s)]_vars

\* C15: a roundComplete or startGameForReal event sent by a connection that is
\* not the session's host is ignored: no session changes and nothing is sent.
C15_HostOfNothing(s) == \A g \in Registry : g.host # s
C15_Ignored ==
    /\ publicGames' = publicGames
    /\ privateGames' = privateGames
    /\ emitted' = <<>>
C15_NonHostStep ==
    \A s \in Open :
        (C15_HostOfNothing(s) /\ (StartGameForReal(s) \/ RoundComplete(s)))
            => C15_Ignored
C15_NonHostControlIgnored == [][C15_NonHostStep]_vars

\* C16: a session is started at most once: once gameStarted is true it stays
\* true, no later step re-picks the target type of the round in progress,
\* and every gameStart broadcast belongs to a session that was not started
\* before the step.
C16_StartedStays(id) ==
    (GameOf(id).gameStarted /\ ~Created(id)') =>
        /\ GameOf(id)'.gameStarted
        /\ GameOf(id)'.round = GameOf(id).round
              => GameOf(id)'.trashType = GameOf(id).trashType
C16_FreshStart(id) ==
    /\ GameOf(id)'.gameStarted
    /\ \/ id \notin RegistryIds
       \/ Created(id)'
       \/ ~GameOf(id).gameStarted
C16_StartStep ==
    /\ \A id \in RegistryIds \cap RegistryIds' : C16_StartedStays(id)
    /\ Emitted("gameStart")' => \E id \in RegistryIds' : C16_FreshStart(id)
C16_StartedAtMostOnce == [][C16_StartStep]_vars
\* a readiness vote has just completed on a session that is already started,
\* and neither a countdown nor a gameStart was sent
C16_Witness ==
    \E g \in Registry :
        /\ g.gameStarted
        /\ Len(g.players) > 1
        /\ AllReady(g)
        /\ EmittedTo(g.host, "readyStatesUpdated")
        /\ ~Emitted("startGameCountDown")
        /\ ~Emitted("gameStart")

\* C17: session identifiers are unique: a creation never reuses the
\* identifier of a session that is still in the registry (one that the sweep
\* preceding the creation does not remove), so a create never replaces a
\* live session.
C17_Live(id) ==
    /\ id \in RegistryIds
    /\ Len(GameOf(id).players) >= 1
    /\ now - GameOf(id).createdAt <= 30 * 60 * 1000
C17_CreateStep == \A id \in RegistryIds : C17_Live(id) => ~Created(id)'
C17_CreateNeverReplacesLiveSession == [][C17_CreateStep]_vars

\* C18: in-round events are honoured only while a session is playing: every
\* session that has not started has round number 1 and every score 0.
C18_LobbyUntouched ==
    \A g \in Registry :
        ~g.gameStarted =>
            /\ g.round = 1
            /\ \A k \in 1..Len(g.scores) : g.scores[k].score = 0

\* C19: the seat position reported for a player is in 1..maxPlayers, is fixed
\* when the player joins and is the same in every later broadcast of the
\* session (playerJoined, gameJoined, gameStart, gameOver), whatever other
\* players join or disconnect; no two players of a session share a seat.
\* the seat every roster broadcast reports: players.indexOf(id) + 1
C19_Seat(game, m) == IndexOf(game.players, m)
C19_RosterOk(r) ==
    /\ \A i \in 1..Len(r) : r[i].position \in 1..maxPlayers
    /\ \A i, j \in 1..Len(r) : r[i].id # r[j].id => r[i].position # r[j].position
\* a playerJoined that some other connected member of the room receives
C19_Heard(msg) ==
    /\ msg.ev = "playerJoined"
    /\ msg.room \in RegistryIds
    /\ (ConnectedMembers(GameOf(msg.room)) \ {msg.data.playerId}) # {}
C19_BroadcastSeats ==
    \A i \in 1..Len(emitted) :
        /\ emitted[i].ev \in {"gameJoined", "gameStart", "gameOver"}
              => C19_RosterOk(emitted[i].data.players)
        /\ C19_Heard(emitted[i])
              => /\ emitted[i].data.position \in 1..maxPlayers
                 /\ emitted[i].data.position =
                        C19_Seat(GameOf(emitted[i].room), emitted[i].data.playerId)
C19_SeatStep ==
    \A id \in RegistryIds \cap RegistryIds' :
        ~Created(id)' =>
            \A m \in Members(GameOf(id)) \cap Members(GameOf(id)') :
                C19_Seat(GameOf(id)', m) = C19_Seat(GameOf(id), m)
C19_SeatsFixedAndUnique == []C19_BroadcastSeats /\ [][C19_SeatStep]_vars

\* C20: for every session in the registry and every identity in its roster,
\* the connection directory has an entry for that identity and the entry's
\* gameId is this session; hence a connection is a member of at most one
\* session.
C20_DirectoryAgrees(g) ==
    \A m \in Members(g) :
        /\ m \in DOMAIN players
        /\ players[m].gameId = g.id
C20_RosterMatchesDirectory == \A g \in Registry : C20_DirectoryAgrees(g)
====
